---- MODULE Spec2Model ----
(***************************************************************************)
(* A model of the ts-migrate plugins in                                    *)
(*   packages/ts-migrate-plugins/src/plugins/react-shape.ts                *)
(* (the Shape-Extraction transform `reactShapePlugin.run` and the          *)
(* Signature-Annotation transform `jsDocTransformerFactory`) and in        *)
(*   packages/ts-migrate-plugins/src/plugins/eslint-fix.ts                 *)
(* (`eslintFixPlugin.run`).                                                *)
(*                                                                         *)
(* Source text is a TLA+ string; offsets are 0-based like the offsets of   *)
(* the TypeScript nodes (`pos` inclusive, `end` exclusive).                *)
(***************************************************************************)
EXTENDS Integers, Sequences, FiniteSets, TLC

VARIABLES
    mode,                       \* which transform the host runs:
                                \*   "shape" | "type" | "fn" | "lint"
    \* ---- reactShapePlugin.run
    fileName,                   \* run({ fileName, ... })
    original,                   \* the text of the file before the first run
    text,                       \* run({ ..., text }) of the current run
    statements,                 \* sourceFile.statements of the current run
    pass,                       \* 1: first run, 2: run on the first run's output
    pc,                         \* position inside run
    idx,                        \* the statement the for-loop is at (1-based)
    updates,                    \* const updates: SourceTextUpdate[]
    shouldAddPropTypesImport,   \* let shouldAddPropTypesImport
    returned,                   \* "none" | "undefined" | "text" | "thrown"
    result,                     \* the text run returned
    \* ---- jsDocTransformerFactory
    options,                    \* { annotateReturns, anyAlias, typeMap }
    jsDocType,                  \* a documentary type expression handed to visitJSDocType
    visited,                    \* what visitJSDocType returned for it
    declaration,                \* a function-like declaration handed to visitFunctionLike
    visitedFn,                  \* what visitFunctionLike computed and recorded for it
    \* ---- eslintFixPlugin.run (with fileName, text, pc, returned and result above)
    cli,                        \* what cli.lintText does with each text
    newText,                    \* let newText
    outcome                     \* what the last call of cli.lintText did

shapeVars == <<fileName, original, text, statements, pass, pc, idx, updates,
               shouldAddPropTypesImport, returned, result>>

jsDocVars == <<options, jsDocType, visited, declaration, visitedFn>>

lintVars == <<cli, newText, outcome>>

vars == <<mode, shapeVars, jsDocVars, lintVars>>

-----------------------------------------------------------------------------
(* Bounds of the model *)

MaxStatements == 2          \* statements after the import of a modelled file
MaxTypeArguments == 2       \* type arguments of a modelled reference
MaxParamTags == 2           \* @param tags of a modelled function

-----------------------------------------------------------------------------
(* JavaScript String methods used by the plugins *)

Min(a, b) == IF a < b THEN a ELSE b
Max(a, b) == IF a < b THEN b ELSE a

\* s.slice(from, to) for 0 <= from: 0-based, `to` exclusive, clipped to the string
Slice(s, from, to) ==
    LET a == Min(Max(from, 0), Len(s))
        b == Min(Max(to, 0), Len(s))
    IN  IF b <= a THEN "" ELSE SubSeq(s, a + 1, b)

SliceFrom(s, from) == Slice(s, from, Len(s))

CharAt(s, k) == Slice(s, k, k + 1)

StartsWith(s, p) == Slice(s, 0, Len(p)) = p

EndsWith(s, p) == Len(s) >= Len(p) /\ Slice(s, Len(s) - Len(p), Len(s)) = p

\* s.indexOf(p, from): the first offset >= from at which p occurs, else -1
RECURSIVE IndexOfFrom(_, _, _)
IndexOfFrom(s, p, from) ==
    IF from + Len(p) > Len(s) THEN -1
    ELSE IF SubSeq(s, from + 1, from + Len(p)) = p THEN from
    ELSE IndexOfFrom(s, p, from + 1)

IndexOf(s, p) == IndexOfFrom(s, p, 0)

Includes(s, p) == IndexOf(s, p) # -1

\* the regular expression  a.b  (a, any character but a line break, b) tested on s
RECURSIVE TestDotFrom(_, _, _, _)
TestDotFrom(s, a, b, from) ==
    LET k == IndexOfFrom(s, a, from)
    IN  IF k = -1 THEN FALSE
        ELSE IF /\ k + Len(a) < Len(s)
                /\ CharAt(s, k + Len(a)) # "\n"
                /\ Slice(s, k + Len(a) + 1, k + Len(a) + 1 + Len(b)) = b
             THEN TRUE
        ELSE TestDotFrom(s, a, b, k + 1)

TestDot(s, a, b) == TestDotFrom(s, a, b, 0)

\* one line without its trailing spaces
RECURSIVE TrimLineEnd(_)
TrimLineEnd(line) ==
    IF EndsWith(line, " ") THEN TrimLineEnd(Slice(line, 0, Len(line) - 1)) ELSE line

\* s.replace(/ +$/gm, ''): every run of spaces before a line break or the end goes
RECURSIVE StripTrailingSpaces(_)
StripTrailingSpaces(s) ==
    LET nl == IndexOf(s, "\n")
    IN  IF nl = -1 THEN TrimLineEnd(s)
        ELSE TrimLineEnd(Slice(s, 0, nl)) \o "\n" \o StripTrailingSpaces(SliceFrom(s, nl + 1))

-----------------------------------------------------------------------------
(* The tree the host hands to run: sourceFile.statements of `text`.  Only   *)
(* the node fields the plugin reads are kept.                               *)

NoExpression ==
    [isCall |-> FALSE, callee |-> "", argc |-> 0, arg0 |-> "None", arg0Callee |-> "",
     text |-> ""]

\* an expression; a call has at most one argument in the modelled files
Expression(src) ==
    LET open == IndexOf(src, "(")
        args == Slice(src, open + 1, Len(src) - 1)
        inner == IndexOf(args, "(")
    IN  IF open = -1 \/ ~EndsWith(src, ")")
        THEN [NoExpression EXCEPT !.text = src]
        ELSE [isCall |-> TRUE,
              callee |-> Slice(src, 0, open),
              argc |-> IF args = "" THEN 0 ELSE 1,
              arg0 |-> IF args = "" THEN "None"
                       ELSE IF StartsWith(args, "{") /\ EndsWith(args, "}")
                            THEN "ObjectLiteralExpression"
                       ELSE IF inner # -1 /\ EndsWith(args, ")") THEN "CallExpression"
                       ELSE "Other",
              arg0Callee |-> IF inner # -1 /\ EndsWith(args, ")") /\ ~StartsWith(args, "{")
                             THEN Slice(args, 0, inner) ELSE "",
              text |-> src]

NoNode ==
    [kind |-> "None", pos |-> 0, start |-> 0, end |-> 0, moduleSpecifier |-> "",
     exportModifier |-> FALSE, name |-> "", hasType |-> FALSE, declPos |-> 0,
     declEnd |-> 0, hasInitializer |-> FALSE, expression |-> NoExpression]

\* the text of a statement without its terminating semicolon
Unterminated(src) == IF EndsWith(src, ";") THEN Slice(src, 0, Len(src) - 1) ELSE src

\* the identifier at the head of s
IdentifierEnd(s) ==
    LET cuts == {k \in {IndexOf(s, " "), IndexOf(s, ":"), IndexOf(s, ";"),
                        IndexOf(s, "=")} : k # -1}
    IN  IF cuts = {} THEN Len(s) ELSE CHOOSE k \in cuts : \A j \in cuts : k <= j

\* [export] const Name[: Type] = Initializer;   (start: offset of the first token)
VariableStatement(src, pos, start) ==
    LET exported == StartsWith(src, "export ")
        kw == IF exported THEN Len("export const") ELSE Len("const")
        decl == Unterminated(SliceFrom(src, kw))          \* " Name: Type = Init"
        head == SliceFrom(decl, 1)
        nameEnd == IdentifierEnd(head)
        eq == IndexOf(decl, " = ")
    IN  [NoNode EXCEPT
            !.kind = "VariableStatement", !.pos = pos, !.start = start,
            !.end = start + Len(src),
            !.exportModifier = exported,
            !.name = Slice(head, 0, nameEnd),
            !.hasType = CharAt(head, nameEnd) = ":",
            !.declPos = start + kw,
            !.declEnd = start + kw + Len(decl),
            !.hasInitializer = eq # -1,
            !.expression = IF eq = -1 THEN NoExpression
                           ELSE Expression(SliceFrom(decl, eq + 3))]

\* the node of the statement whose first token starts at `start`
Statement(src, pos, start) ==
    LET base == [NoNode EXCEPT !.pos = pos, !.start = start, !.end = start + Len(src)]
    IN  IF StartsWith(src, "import ")
        THEN LET from == IndexOf(src, " from ")
             IN  [base EXCEPT !.kind = "ImportDeclaration",
                              !.moduleSpecifier =
                                  Unterminated(SliceFrom(src, IF from = -1 THEN 7 ELSE from + 6))]
        ELSE IF StartsWith(src, "export default ")
        THEN [base EXCEPT !.kind = "ExportAssignment",
                          !.expression = Expression(Unterminated(SliceFrom(src, 15)))]
        ELSE IF StartsWith(src, "export {")
        THEN [base EXCEPT !.kind = "ExportDeclaration"]
        ELSE IF StartsWith(src, "export const ") \/ StartsWith(src, "const ")
        THEN VariableStatement(src, pos, start)
        ELSE IF StartsWith(src, "type ")
        THEN [base EXCEPT !.kind = "TypeAliasDeclaration",
                          !.name = Slice(src, 5, 5 + IdentifierEnd(SliceFrom(src, 5)))]
        ELSE IF StartsWith(src, "interface ")
        THEN [base EXCEPT !.kind = "InterfaceDeclaration",
                          !.name = Slice(src, 10, 10 + IdentifierEnd(SliceFrom(src, 10)))]
        ELSE [base EXCEPT !.kind = "ExpressionStatement"]

\* leading trivia: spaces, line breaks and // comments
RECURSIVE SkipTrivia(_, _)
SkipTrivia(t, p) ==
    IF p >= Len(t) THEN Len(t)
    ELSE IF SubSeq(t, p + 1, p + 1) \in {" ", "\n"} THEN SkipTrivia(t, p + 1)
    ELSE IF Slice(t, p, p + 2) = "//"
         THEN LET nl == IndexOfFrom(t, "\n", p)
              IN  IF nl = -1 THEN Len(t) ELSE SkipTrivia(t, nl)
    ELSE p

\* the end of the statement that starts at `start`
StatementEnd(t, start) ==
    LET stop == IF Slice(t, start, start + 10) = "interface "
                THEN IndexOfFrom(t, "}", start)
                ELSE IndexOfFrom(t, ";", start)
    IN  IF stop = -1 THEN Len(t) ELSE stop + 1

\* sourceFile.statements: a node's pos is the end of the node before it
RECURSIVE ParseFrom(_, _)
ParseFrom(t, pos) ==
    LET start == SkipTrivia(t, pos)
        end == StatementEnd(t, start)
    IN  IF start >= Len(t) THEN <<>>
        ELSE <<Statement(Slice(t, start, end), pos, start)>> \o ParseFrom(t, end)

Parse(t) == ParseFrom(t, 0)

\* node.getFullText(): the node's text with its leading trivia
GetFullText(t, node) == Slice(t, node.pos, node.end)

-----------------------------------------------------------------------------
(* The patch engine updateSourceText(text, updates)                         *)

Insert(index, txt) == [kind |-> "insert", index |-> index, length |-> 0, text |-> txt]
Delete(index, length) == [kind |-> "delete", index |-> index, length |-> length, text |-> ""]
Replace(index, length, txt) ==
    [kind |-> "replace", index |-> index, length |-> length, text |-> txt]

\* e put into the sorted list after every edit whose index is not larger
RECURSIVE InsertSorted(_, _)
InsertSorted(sorted, e) ==
    IF sorted = <<>> THEN <<e>>
    ELSE IF Head(sorted).index <= e.index THEN <<Head(sorted)>> \o InsertSorted(Tail(sorted), e)
    ELSE <<e>> \o sorted

\* edits by index ascending, edits at one index in the order submitted
RECURSIVE SortUpdates(_)
SortUpdates(us) ==
    IF us = <<>> THEN <<>>
    ELSE InsertSorted(SortUpdates(SubSeq(us, 1, Len(us) - 1)), us[Len(us)])

\* one walk over the original text: unedited spans are copied, each edit is spliced
\* in at its offset; a delete or replace that starts inside an earlier one is fatal
RECURSIVE Walk(_, _, _, _)
Walk(t, sorted, cursor, out) ==
    IF sorted = <<>> THEN [ok |-> TRUE, text |-> out \o SliceFrom(t, cursor)]
    ELSE LET e == Head(sorted)
         IN  IF e.kind # "insert" /\ e.index < cursor
             THEN [ok |-> FALSE, text |-> ""]
             ELSE Walk(t, Tail(sorted),
                       Max(cursor, Min(e.index + e.length, Len(t))),
                       out \o Slice(t, cursor, e.index) \o e.text)

updateSourceText(t, us) == Walk(t, SortUpdates(us), 0, "")

-----------------------------------------------------------------------------
(* reactShapePlugin.run                                                     *)

\* /prop-types|react-validators/.test(moduleSpecifier.getText())
TestValidationImport(spec) == Includes(spec, "prop-types") \/ Includes(spec, "react-validators")

\* /prop-types/.test(moduleSpecifier.getText())
TestPropTypesImport(spec) == Includes(spec, "prop-types")

importDeclarations(stmts) == SelectSeq(stmts, LAMBDA n : n.kind = "ImportDeclaration")

hasPropTypesImport(stmts) ==
    \E k \in 1..Len(stmts) :
        stmts[k].kind = "ImportDeclaration" /\ TestValidationImport(stmts[k].moduleSpecifier)

InitialShouldAddPropTypesImport(stmts) ==
    ~\E k \in 1..Len(stmts) :
        stmts[k].kind = "ImportDeclaration" /\ TestPropTypesImport(stmts[k].moduleSpecifier)

typesAndInterfaces(stmts) ==
    SelectSeq(stmts, LAMBDA n : n.kind \in {"InterfaceDeclaration", "TypeAliasDeclaration"})

\* /PropTypes.shape|Shape|Types.shape/.test(node.expression.getText())
isPropTypesShapeCallExpression(callee) ==
    \/ TestDot(callee, "PropTypes", "shape")
    \/ Includes(callee, "Shape")
    \/ TestDot(callee, "Types", "shape")

\* /arrayOf/.test(node.expression.getText())
TestArrayOf(callee) == Includes(callee, "arrayOf")

\* printer.printNode(getPropTypesImportNode())
PropTypesImportText == "import PropTypes from \"prop-types\";"

\* printer.printNode(getShapeTypeNode(shapeName))
ShapeTypeText(shapeName) ==
    "PropTypes.Requireable<" \o shapeName \o "> | Validator<" \o shapeName \o ">"

\* printer.printNode(getTypeForTheShape(shapeNode, shapeName, ..., isArrayShapeType));
\* every shape of the modelled files is the empty object literal
TypeForTheShapeText(shapeName, isArrayShapeType) ==
    "type " \o shapeName \o " = {}" \o (IF isArrayShapeType THEN "[]" ELSE "") \o ";"

\* path.basename(fileName).split('.')[0]
BaseShapeName(file) ==
    LET dot == IndexOf(file, ".") IN IF dot = -1 THEN file ELSE Slice(file, 0, dot)

\* insertPropTypesRequireableNode(): the edits it pushes
insertPropTypesRequireableNode(shouldAdd) ==
    IF shouldAdd THEN <<Insert(0, PropTypesImportText \o "\n")>> ELSE <<>>

\* splitVariableExport(node, shapeName): the edits it pushes
splitVariableExport(t, node, shapeName) ==
    LET posOfExportKeyword == IndexOf(GetFullText(t, node), "export")
    IN  <<Delete(node.pos + posOfExportKeyword, Len("export") + 1),
          Insert(node.end, "\nexport { " \o shapeName \o " };")>>

\* EntersVariableBranch without the test of the declaration's own type
EntersVariableBranch_TypeIgnored(node) ==
    node.kind = "VariableStatement" /\ node.hasInitializer

\* the conditions of the three branches of the loop body
EntersVariableBranch(node) ==
    node.kind = "VariableStatement" /\ node.hasInitializer /\ ~node.hasType

IsShapeVariable(node) ==
    /\ EntersVariableBranch(node)
    /\ node.expression.isCall
    /\ node.expression.argc > 0
    /\ node.expression.arg0 = "ObjectLiteralExpression"
    /\ isPropTypesShapeCallExpression(node.expression.callee)

\* ts.isCallExpression(node.arguments[0]) reads .kind of undefined when the call has
\* no argument
ArrayOfTestThrows(node) ==
    /\ EntersVariableBranch(node)
    /\ node.expression.isCall
    /\ TestArrayOf(node.expression.callee)
    /\ node.expression.argc = 0

isPropTypesArrayOfShapes(expression) ==
    /\ TestArrayOf(expression.callee)
    /\ expression.arg0 = "CallExpression"
    /\ isPropTypesShapeCallExpression(expression.arg0Callee)

IsArrayOfShapesVariable(node) ==
    /\ EntersVariableBranch(node)
    /\ node.expression.isCall
    /\ isPropTypesArrayOfShapes(node.expression)

\* ts.isObjectLiteralExpression(node.expression.arguments[0]) reads .kind of undefined
DefaultExportTestThrows(node) ==
    /\ node.kind = "ExportAssignment"
    /\ node.expression.isCall
    /\ node.expression.argc = 0

IsDefaultExportedShape(node) ==
    /\ node.kind = "ExportAssignment"
    /\ node.expression.isCall
    /\ node.expression.arg0 = "ObjectLiteralExpression"
    /\ isPropTypesShapeCallExpression(node.expression.callee)

HasTypeNamed(stmts, name) ==
    \E k \in 1..Len(typesAndInterfaces(stmts)) : typesAndInterfaces(stmts)[k].name = name

\* const shapeName = PropTypes.shape({...})
ShapeVariableEdits(t, stmts, node, shouldAdd) ==
    LET shapeName == node.name
        index == node.declPos + 1
        length == node.declEnd - index
    IN  insertPropTypesRequireableNode(shouldAdd)
        \o (IF ~HasTypeNamed(stmts, node.name)
            THEN <<Insert(node.pos, "\n\n" \o TypeForTheShapeText(shapeName, FALSE))>>
            ELSE <<>>)
        \o <<Replace(index, length,
                     shapeName \o ": " \o ShapeTypeText(shapeName) \o " = "
                               \o node.expression.text)>>
        \o (IF node.exportModifier THEN splitVariableExport(t, node, shapeName) ELSE <<>>)

\* const shapeName = Types.arrayOf(Shape(...))
ArrayOfShapesEdits(t, stmts, node, shouldAdd) ==
    LET shapeName == node.name
    IN  insertPropTypesRequireableNode(shouldAdd)
        \o <<Insert(node.pos, "\n\n" \o TypeForTheShapeText(shapeName, TRUE))>>
        \o (IF node.exportModifier THEN splitVariableExport(t, node, shapeName) ELSE <<>>)

\* export default PropTypes.shape({...})
DefaultExportEdits(t, stmts, node, shouldAdd, file) ==
    LET shapeName == BaseShapeName(file)
        imports == importDeclarations(stmts)
    IN  insertPropTypesRequireableNode(shouldAdd)
        \o <<Insert(imports[Len(imports)].end,
                    "\n\n" \o TypeForTheShapeText(shapeName, FALSE)),
             Replace(node.pos, node.end,
                     "\n" \o "const " \o shapeName \o ": " \o ShapeTypeText(shapeName)
                          \o " = " \o node.expression.text \o ";"),
             Insert(node.end, "\n" \o "export default " \o shapeName \o ";")>>

\* one iteration of  for (const node of sourceFile.statements)
\* LoopBody with insertPropTypesRequireableNode never clearing the flag
LoopBody_FlagKept(t, stmts, node, shouldAdd, file) ==
    LET e1 == IF IsShapeVariable(node)
              THEN ShapeVariableEdits(t, stmts, node, shouldAdd) ELSE <<>>
        e2 == IF IsArrayOfShapesVariable(node)
              THEN ArrayOfShapesEdits(t, stmts, node, shouldAdd) ELSE <<>>
        e3 == IF IsDefaultExportedShape(node)
              THEN DefaultExportEdits(t, stmts, node, shouldAdd, file) ELSE <<>>
    IN  IF ArrayOfTestThrows(node)
        THEN [thrown |-> TRUE, edits |-> e1, shouldAdd |-> shouldAdd]
        ELSE IF DefaultExportTestThrows(node)
        THEN [thrown |-> TRUE, edits |-> e1 \o e2, shouldAdd |-> shouldAdd]
        ELSE [thrown |-> FALSE, edits |-> e1 \o e2 \o e3, shouldAdd |-> shouldAdd]

LoopBody(t, stmts, node, shouldAdd, file) ==
    LET e1 == IF IsShapeVariable(node)
              THEN ShapeVariableEdits(t, stmts, node, shouldAdd) ELSE <<>>
        add1 == shouldAdd /\ ~IsShapeVariable(node)
        e2 == IF IsArrayOfShapesVariable(node)
              THEN ArrayOfShapesEdits(t, stmts, node, add1) ELSE <<>>
        add2 == add1 /\ ~IsArrayOfShapesVariable(node)
        e3 == IF IsDefaultExportedShape(node)
              THEN DefaultExportEdits(t, stmts, node, add2, file) ELSE <<>>
        add3 == add2 /\ ~IsDefaultExportedShape(node)
    IN  IF ArrayOfTestThrows(node)
        THEN [thrown |-> TRUE, edits |-> e1, shouldAdd |-> add1]
        ELSE IF DefaultExportTestThrows(node)
        THEN [thrown |-> TRUE, edits |-> e1 \o e2, shouldAdd |-> add2]
        ELSE [thrown |-> FALSE, edits |-> e1 \o e2 \o e3, shouldAdd |-> add3]

\* the end of run: apply the edits, strip trailing spaces, keep the final newline
Cleanup(t, patched) ==
    LET cleaned == StripTrailingSpaces(patched)
    IN  IF EndsWith(t, "\n") /\ ~EndsWith(cleaned, "\n") THEN cleaned \o "\n" ELSE cleaned

-----------------------------------------------------------------------------
(* The Signature-Annotation transform: documentary type expressions         *)

\* an absent optional property or argument
Undefined == [undefined |-> TRUE]

\* no options.typeMap, and the options of a host that does not run the transform
EmptyTypeMap == [name \in {} |-> Undefined]
IdleOptions == [annotateReturns |-> FALSE, anyAlias |-> "", typeMap |-> EmptyTypeMap]

\* a ts.NodeArray
NodeArray(elements) == [elements |-> elements]

Keyword(kind) == [kind |-> kind]

\* typeName: the segments of the entity name, one segment for an Identifier
TypeReference(typeName, typeArguments) ==
    [kind |-> "TypeReference", typeName |-> typeName, typeArguments |-> typeArguments]

ArrayType(elementType) == [kind |-> "ArrayType", elementType |-> elementType]

\* JSDocOptionalType, JSDocNullableType, JSDocNonNullableType, JSDocVariadicType
JSDocWrapper(kind, type) == [kind |-> kind, type |-> type]

JSDocTypeExpression(type) == [kind |-> "JSDocTypeExpression", type |-> type]

\* a parameter of a function or of a JSDocFunctionType; name "" is no name
Parameter(binding, name, questionToken, type, initializer) ==
    [binding |-> binding, name |-> name, dotDotDotToken |-> FALSE,
     questionToken |-> questionToken, type |-> type, initializer |-> initializer]

JSDocFunctionType(parameters, type) ==
    [kind |-> "JSDocFunctionType", parameters |-> parameters, type |-> type]

\* a @param or @property tag; name: the segments of its entity name
PropertyLikeTag(name, typeExpression, isBracketed) ==
    [name |-> name, typeExpression |-> typeExpression, isBracketed |-> isBracketed]

JSDocTypeLiteral(jsDocPropertyTags) ==
    [kind |-> "JSDocTypeLiteral", jsDocPropertyTags |-> jsDocPropertyTags]

UnionType(types) == [kind |-> "UnionType", types |-> types]
NullLiteralType == [kind |-> "LiteralType", literal |-> "null"]
FunctionType(parameters, type) ==
    [kind |-> "FunctionType", parameters |-> parameters, type |-> type]
PropertySignature(name, questionToken, type) ==
    [kind |-> "PropertySignature", name |-> name, questionToken |-> questionToken,
     type |-> type]
IndexSignature(parameters, type) ==
    [kind |-> "IndexSignature", parameters |-> parameters, type |-> type]
TypeLiteral(members) == [kind |-> "TypeLiteral", members |-> members]

ts_isIdentifier(name) == Len(name) = 1
ts_isTypeReferenceNode(node) == node.kind = "TypeReference"
ts_isJSDocOptionalType(node) == node.kind = "JSDocOptionalType"

\* TypeOptions: a direct rename, or { tsName?, acceptsTypeParameters? } with
\* tsName "" for no tsName and acceptsTypeParameters "true" | "false" | "undefined"
Rename(tsName) == [string |-> tsName]
TypeOptions(tsName, acceptsTypeParameters) ==
    [tsName |-> tsName, acceptsTypeParameters |-> acceptsTypeParameters]
IsRename(typeOptions) == "string" \in DOMAIN typeOptions

defaultTypeMap ==
    ("String" :> TypeOptions("string", "false")) @@
    ("Boolean" :> TypeOptions("boolean", "false")) @@
    ("Number" :> TypeOptions("number", "false")) @@
    ("Object" :> TypeOptions("object", "false")) @@
    ("date" :> TypeOptions("Date", "false")) @@
    ("Date" :> TypeOptions("Date", "false")) @@
    ("Symbol" :> TypeOptions("symbol", "false")) @@
    ("Function" :> TypeOptions("Function", "false")) @@
    ("array" :> Rename("Array")) @@
    ("Array" :> Rename("Array")) @@
    ("promise" :> Rename("Promise"))

PRIMITIVE_KEYWORDS ==
    ("string" :> "StringKeyword") @@ ("number" :> "NumberKeyword") @@
    ("boolean" :> "BooleanKeyword") @@ ("symbol" :> "SymbolKeyword") @@
    ("object" :> "ObjectKeyword")

primitiveKeywordNode(name) ==
    IF name \in DOMAIN PRIMITIVE_KEYWORDS THEN Keyword(PRIMITIVE_KEYWORDS[name]) ELSE Undefined

RECURSIVE getEntityNameText(_)
getEntityNameText(name) ==
    IF ts_isIdentifier(name) THEN name[1]
    ELSE getEntityNameText(SubSeq(name, 1, Len(name) - 1)) \o "." \o name[Len(name)]

\* String.prototype.toLowerCase over the letters of the modelled names
UpperCase == "ABCDEFGHIJKLMNOPQRSTUVWXYZ"
LowerCase == "abcdefghijklmnopqrstuvwxyz"
RECURSIVE toLowerCase(_)
toLowerCase(s) ==
    IF s = "" THEN ""
    ELSE LET k == IndexOf(UpperCase, CharAt(s, 0))
         IN  (IF k = -1 THEN CharAt(s, 0) ELSE CharAt(LowerCase, k)) \o toLowerCase(SliceFrom(s, 1))

\* isJSDocIndexSignature without the test of the kind of the first argument
isJSDocIndexSignature_AnyKey(node) ==
    /\ ts_isTypeReferenceNode(node)
    /\ ts_isIdentifier(node.typeName)
    /\ node.typeName[1] = "Object"
    /\ node.typeArguments # Undefined
    /\ Len(node.typeArguments.elements) = 2

isJSDocIndexSignature(node) ==
    /\ ts_isTypeReferenceNode(node)
    /\ ts_isIdentifier(node.typeName)
    /\ node.typeName[1] = "Object"
    /\ node.typeArguments # Undefined
    /\ Len(node.typeArguments.elements) = 2
    /\ node.typeArguments.elements[1].kind \in {"StringKeyword", "NumberKeyword"}

visitJSDocIndexSignature(node) ==
    LET typeArguments == node.typeArguments.elements
        isNumber == typeArguments[1].kind = "NumberKeyword"
        index == Parameter("Identifier", IF isNumber THEN "n" ELSE "s", FALSE,
                           TypeReference(<<IF isNumber THEN "number" ELSE "string">>,
                                         NodeArray(<<>>)),
                           FALSE)
    IN  TypeLiteral(<<IndexSignature(<<index>>, typeArguments[2])>>)

\* const anyType = anyAlias ? createTypeReferenceNode(anyAlias) : any
anyType ==
    IF options.anyAlias # "" THEN TypeReference(<<options.anyAlias>>, Undefined)
    ELSE Keyword("AnyKeyword")

\* const typeMap = { ...defaultTypeMap, ...optionsTypeMap }
typeMap == options.typeMap @@ defaultTypeMap

ArgName(index) == "arg" \o (CASE index = 0 -> "0" [] index = 1 -> "1" [] OTHER -> "2")

RECURSIVE visitJSDocType(_)
RECURSIVE visitJSDocPropertyLikeTag(_)

\* an argument of a reference: visited, a bare primitive reference collapsed
NormalizedArg(arg) ==
    LET visitedArg == visitJSDocType(arg)
    IN  IF ts_isTypeReferenceNode(visitedArg) /\ ts_isIdentifier(visitedArg.typeName)
        THEN LET innerPrim == primitiveKeywordNode(visitedArg.typeName[1])
             IN  IF innerPrim # Undefined THEN innerPrim ELSE visitedArg
        ELSE visitedArg

\* visitJSDocTypeReference with acceptsTypeParameters of the entry never read
visitJSDocTypeReference_ArgumentsKept(node) ==
    IF ts_isIdentifier(node.typeName) /\ isJSDocIndexSignature(node)
    THEN visitJSDocIndexSignature(node)
    ELSE IF ts_isIdentifier(node.typeName)
    THEN LET name == node.typeName[1]
             inMap == name \in DOMAIN typeMap
             typeOptions == typeMap[name]
             renamed == IF ~inMap THEN name
                        ELSE IF IsRename(typeOptions) THEN typeOptions.string
                        ELSE IF typeOptions.tsName # "" THEN typeOptions.tsName
                        ELSE name
             primitive == primitiveKeywordNode(renamed)
         IN  IF primitive # Undefined THEN primitive
             ELSE IF renamed \in {"Array", "Promise"} /\ node.typeArguments = Undefined
             THEN TypeReference(<<renamed>>, NodeArray(<<anyType>>))
             ELSE IF node.typeArguments # Undefined
             THEN TypeReference(<<renamed>>,
                      NodeArray([i \in 1..Len(node.typeArguments.elements) |->
                                    NormalizedArg(node.typeArguments.elements[i])]))
             ELSE TypeReference(<<renamed>>, Undefined)
    ELSE TypeReference(node.typeName, node.typeArguments)

visitJSDocTypeReference(node) ==
    IF ts_isIdentifier(node.typeName) /\ isJSDocIndexSignature(node)
    THEN visitJSDocIndexSignature(node)
    ELSE IF ts_isIdentifier(node.typeName)
    THEN LET name == node.typeName[1]
             inMap == name \in DOMAIN typeMap
             typeOptions == typeMap[name]
             renamed == IF ~inMap THEN name
                        ELSE IF IsRename(typeOptions) THEN typeOptions.string
                        ELSE IF typeOptions.tsName # "" THEN typeOptions.tsName
                        ELSE name
             acceptsTypeParameters ==
                 IF inMap /\ ~IsRename(typeOptions)
                 THEN typeOptions.acceptsTypeParameters # "false"
                 ELSE TRUE
             primitive == primitiveKeywordNode(renamed)
         IN  IF primitive # Undefined THEN primitive
             ELSE IF renamed \in {"Array", "Promise"} /\ node.typeArguments = Undefined
             THEN TypeReference(<<renamed>>, NodeArray(<<anyType>>))
             ELSE IF node.typeArguments # Undefined /\ acceptsTypeParameters
             THEN TypeReference(<<renamed>>,
                      NodeArray([i \in 1..Len(node.typeArguments.elements) |->
                                    NormalizedArg(node.typeArguments.elements[i])]))
             ELSE TypeReference(<<renamed>>, Undefined)
    ELSE TypeReference(node.typeName, node.typeArguments)

visitJSDocNullableType(node) == UnionType(<<visitJSDocType(node.type), NullLiteralType>>)

visitJSDocVariadicType(node) == ArrayType(visitJSDocType(node.type))

\* index: the 0-based place of the parameter among count parameters
visitJSDocParameter(node, index, count) ==
    IF node.type = Undefined THEN node
    ELSE LET isRest == node.type.kind = "JSDocVariadicType" /\ index = count - 1
         IN  [node EXCEPT
                 !.name = IF node.name # "" THEN node.name
                          ELSE IF isRest THEN "rest" ELSE ArgName(index),
                 !.dotDotDotToken = IF isRest THEN TRUE ELSE node.dotDotDotToken,
                 !.type = visitJSDocType(node.type)]

visitJSDocFunctionType(node) ==
    FunctionType([i \in 1..Len(node.parameters) |->
                     visitJSDocParameter(node.parameters[i], i - 1, Len(node.parameters))],
                 IF node.type # Undefined THEN node.type ELSE anyType)

visitJSDocTypeLiteral(node) ==
    TypeLiteral(IF node.jsDocPropertyTags = Undefined THEN <<>>
                ELSE [i \in 1..Len(node.jsDocPropertyTags.elements) |->
                         visitJSDocPropertyLikeTag(node.jsDocPropertyTags.elements[i])])

visitJSDocPropertyLikeTag(node) ==
    LET type == IF node.typeExpression # Undefined
                THEN visitJSDocType(node.typeExpression.type) ELSE anyType
        optionalType == IF node.typeExpression # Undefined
                        THEN ts_isJSDocOptionalType(node.typeExpression) ELSE FALSE
        questionToken == node.isBracketed \/ optionalType
    IN  PropertySignature(node.name[Len(node.name)], questionToken, type)

visitJSDocType(node) ==
    CASE node.kind \in {"JSDocAllType", "JSDocUnknownType"} -> anyType
      [] node.kind = "JSDocOptionalType" -> visitJSDocType(node.type)
      [] node.kind = "JSDocNonNullableType" -> visitJSDocType(node.type)
      [] node.kind = "JSDocNullableType" -> visitJSDocNullableType(node)
      [] node.kind = "JSDocVariadicType" -> visitJSDocVariadicType(node)
      [] node.kind = "JSDocFunctionType" -> visitJSDocFunctionType(node)
      [] node.kind = "ArrayType" -> ArrayType(visitJSDocType(node.elementType))
      [] node.kind = "TypeReference" -> visitJSDocTypeReference(node)
      [] node.kind = "JSDocTypeLiteral" -> visitJSDocTypeLiteral(node)
      [] OTHER -> node

-----------------------------------------------------------------------------
(* The Signature-Annotation transform: function-like declarations           *)

\* a function-like declaration with the JSDoc tags attached to it
\*   modifiers: Undefined or a NodeArray of modifier keywords and decorators
\*   paramTags: its JSDocParameterTags;  returnTag: ts.getJSDocReturnType
\*   privacyTags: which of @private, @protected, @public it carries
FunctionLike(kind, insideClass, modifiers, parameters, type, paramTags, returnTag, privacyTags) ==
    [kind |-> kind, insideClass |-> insideClass, modifiers |-> modifiers,
     parameters |-> parameters, type |-> type, paramTags |-> paramTags,
     returnTag |-> returnTag, privacyTags |-> privacyTags]

\* buildNestedType that never descends: a member takes its own tag's type even when
\* tags are declared under it
buildNestedType_Flat(prefix, allTags) ==
    LET IsChild(tag) ==
            LET tagName == getEntityNameText(tag.name)
            IN  /\ StartsWith(tagName, prefix \o ".")
                /\ ~Includes(SliceFrom(tagName, Len(prefix) + 1), ".")
        childTags == SelectSeq(allTags, IsChild)
        Member(tag) ==
            LET tagName == getEntityNameText(tag.name)
                propertyName == SliceFrom(tagName, Len(prefix) + 1)
                te == tag.typeExpression.type
                inner == IF ts_isJSDocOptionalType(te) THEN te.type ELSE te
                visitedInner == visitJSDocType(inner)
                normalized ==
                    IF ts_isTypeReferenceNode(visitedInner) /\ ts_isIdentifier(visitedInner.typeName)
                    THEN LET name == visitedInner.typeName[1]
                         IN  IF primitiveKeywordNode(name) # Undefined
                             THEN primitiveKeywordNode(name)
                             ELSE primitiveKeywordNode(toLowerCase(name))
                    ELSE Undefined
                propertyType ==
                    IF tag.typeExpression # Undefined
                    THEN (IF normalized # Undefined THEN normalized ELSE visitedInner)
                    ELSE anyType
                isOptional ==
                    \/ tag.isBracketed
                    \/ (tag.typeExpression # Undefined
                        /\ ts_isJSDocOptionalType(tag.typeExpression.type))
            IN  PropertySignature(propertyName, isOptional, propertyType)
    IN  TypeLiteral([i \in 1..Len(childTags) |-> Member(childTags[i])])

RECURSIVE buildNestedType(_, _)
buildNestedType(prefix, allTags) ==
    LET IsChild(tag) ==
            LET tagName == getEntityNameText(tag.name)
            IN  /\ StartsWith(tagName, prefix \o ".")
                /\ ~Includes(SliceFrom(tagName, Len(prefix) + 1), ".")
        childTags == SelectSeq(allTags, IsChild)
        Member(tag) ==
            LET tagName == getEntityNameText(tag.name)
                propertyName == SliceFrom(tagName, Len(prefix) + 1)
                fullPropertyPath == prefix \o "." \o propertyName
                hasNestedChildren ==
                    \E k \in 1..Len(allTags) :
                        StartsWith(getEntityNameText(allTags[k].name), fullPropertyPath \o ".")
                te == tag.typeExpression.type
                inner == IF ts_isJSDocOptionalType(te) THEN te.type ELSE te
                visitedInner == visitJSDocType(inner)
                normalized ==
                    IF ts_isTypeReferenceNode(visitedInner) /\ ts_isIdentifier(visitedInner.typeName)
                    THEN LET name == visitedInner.typeName[1]
                         IN  IF primitiveKeywordNode(name) # Undefined
                             THEN primitiveKeywordNode(name)
                             ELSE primitiveKeywordNode(toLowerCase(name))
                    ELSE Undefined
                propertyType ==
                    IF hasNestedChildren THEN buildNestedType(fullPropertyPath, allTags)
                    ELSE IF tag.typeExpression # Undefined
                    THEN (IF normalized # Undefined THEN normalized ELSE visitedInner)
                    ELSE anyType
                isOptional ==
                    \/ tag.isBracketed
                    \/ (tag.typeExpression # Undefined
                        /\ ts_isJSDocOptionalType(tag.typeExpression.type))
            IN  PropertySignature(propertyName, isOptional, propertyType)
    IN  TypeLiteral([i \in 1..Len(childTags) |-> Member(childTags[i])])

\* Array.prototype.find: the first of the elements found, else undefined
Find(found) == IF found = <<>> THEN Undefined ELSE found[1]

\* one parameter of fn.parameters.map(...) in visitParameters
VisitParameter(param, allParamTags) ==
    IF param.type # Undefined THEN param
    ELSE IF param.binding = "ObjectBindingPattern"
    THEN LET rootTag == Find(SelectSeq(allParamTags,
                             LAMBDA t : Includes(getEntityNameText(t.name), ".")))
         IN  IF rootTag # Undefined
             THEN [param EXCEPT !.type = buildNestedType(rootTag.name[1], allParamTags)]
             ELSE [param EXCEPT !.type = Keyword("ObjectKeyword")]
    ELSE IF param.binding # "Identifier" THEN param
    ELSE LET name == param.name
             directTag == Find(SelectSeq(allParamTags,
                               LAMBDA t : /\ ts_isIdentifier(t.name)
                                          /\ t.name[1] = name
                                          /\ t.typeExpression # Undefined))
             nestedTags == SelectSeq(allParamTags,
                               LAMBDA t : /\ ts_isIdentifier(t.name)
                                          /\ StartsWith(t.name[1], name \o "."))
         IN  IF nestedTags # <<>>
             THEN [param EXCEPT !.type = buildNestedType(name, allParamTags)]
             ELSE IF directTag # Undefined
             THEN LET typeNode == directTag.typeExpression.type
                  IN  [param EXCEPT
                          !.type = visitJSDocType(typeNode),
                          !.questionToken =
                              IF /\ ~param.initializer
                                 /\ (directTag.isBracketed \/ ts_isJSDocOptionalType(typeNode))
                              THEN TRUE ELSE param.questionToken]
             ELSE param

\* identical: the result is fn.parameters itself, not a new array
visitParameters(fn) ==
    IF fn.paramTags = <<>>
    THEN [identical |-> TRUE, parameters |-> fn.parameters]
    ELSE [identical |-> FALSE,
          parameters |-> [i \in 1..Len(fn.parameters) |->
                             VisitParameter(fn.parameters[i], fn.paramTags)]]

visitReturnType(functionDeclaration) ==
    IF functionDeclaration.type # Undefined THEN functionDeclaration.type
    ELSE IF functionDeclaration.returnTag = Undefined THEN functionDeclaration.type
    ELSE visitJSDocType(functionDeclaration.returnTag)

\* const returnType = annotateReturns ? visitReturnType(node) : node.type
ReturnTypeOf(node) == IF options.annotateReturns THEN visitReturnType(node) ELSE node.type

\* the modifier keywords in the order createModifiersFromModifierFlags emits them
ModifierOrder ==
    <<"export", "declare", "default", "const", "public", "private", "protected",
      "abstract", "static", "override", "readonly", "accessor", "async">>

accessibilityMask == {"private", "protected", "public"}

IsModifierKeyword(m) == \E k \in 1..Len(ModifierOrder) : ModifierOrder[k] = m

\* ts.getCombinedModifierFlags(node): the keywords among node.modifiers
ModifierFlags(node) ==
    IF node.modifiers = Undefined THEN {}
    ELSE {node.modifiers.elements[k] : k \in 1..Len(node.modifiers.elements)}
         \cap {ModifierOrder[k] : k \in 1..Len(ModifierOrder)}

createModifiersFromModifierFlags(flags) ==
    NodeArray(SelectSeq(ModifierOrder, LAMBDA m : m \in flags))

\* modifiersFromJSDoc without the test of the accessibility the method already has
modifiersFromJSDoc_Overriding(methodDeclaration) ==
    LET modifierFlags == ModifierFlags(methodDeclaration)
        same == [identical |-> TRUE, value |-> methodDeclaration.modifiers]
    IN  IF "private" \in methodDeclaration.privacyTags
        THEN [identical |-> FALSE,
              value |-> createModifiersFromModifierFlags(modifierFlags \cup {"private"})]
        ELSE IF "protected" \in methodDeclaration.privacyTags
        THEN [identical |-> FALSE,
              value |-> createModifiersFromModifierFlags(modifierFlags \cup {"protected"})]
        ELSE IF "public" \in methodDeclaration.privacyTags
        THEN [identical |-> FALSE,
              value |-> createModifiersFromModifierFlags(modifierFlags \cup {"public"})]
        ELSE same

\* identical: the result is methodDeclaration.modifiers itself
modifiersFromJSDoc(methodDeclaration) ==
    LET modifierFlags == ModifierFlags(methodDeclaration)
        same == [identical |-> TRUE, value |-> methodDeclaration.modifiers]
    IN  IF modifierFlags \cap accessibilityMask # {} THEN same
        ELSE IF "private" \in methodDeclaration.privacyTags
        THEN [identical |-> FALSE,
              value |-> createModifiersFromModifierFlags(modifierFlags \cup {"private"})]
        ELSE IF "protected" \in methodDeclaration.privacyTags
        THEN [identical |-> FALSE,
              value |-> createModifiersFromModifierFlags(modifierFlags \cup {"protected"})]
        ELSE IF "public" \in methodDeclaration.privacyTags
        THEN [identical |-> FALSE,
              value |-> createModifiersFromModifierFlags(modifierFlags \cup {"public"})]
        ELSE same

\* ts.getModifiers(node): node.modifiers without its decorators; the array itself
\* when it holds no decorator, undefined when it holds no modifier keyword
getModifiers(node) ==
    IF ModifierFlags(node) = {}
    THEN [identical |-> node.modifiers = Undefined, value |-> Undefined]
    ELSE LET kept == SelectSeq(node.modifiers.elements, IsModifierKeyword)
         IN  [identical |-> kept = node.modifiers.elements, value |-> NodeArray(kept)]

\* the body of visitFunctionLike after its first three statements: the comparison
\* with the node and the calls on the update tracker
RecordUpdates(node, modifiers, parameters, returnType) ==
    LET returnTypeIdentical ==
            ~(options.annotateReturns /\ node.type = Undefined /\ node.returnTag # Undefined)
        unchanged == modifiers.identical /\ parameters.identical /\ returnTypeIdentical
        modifierCalls ==
            IF modifiers.value = Undefined THEN <<>>
            ELSE IF node.modifiers # Undefined
            THEN <<[call |-> "replaceNodes", target |-> "modifiers", nodes |-> modifiers.value]>>
            ELSE <<[call |-> "insertNodes", target |-> "name", nodes |-> modifiers.value]>>
        parameterCalls ==
            <<[call |-> "replaceNodes", target |-> "parameters",
               nodes |-> NodeArray(parameters.parameters)]>>
        returnCalls ==
            IF returnType # Undefined
            THEN <<[call |-> "addReturnAnnotation", target |-> "node", newType |-> returnType]>>
            ELSE <<>>
    IN  [modifiers |-> modifiers.value,
         parameters |-> parameters.parameters,
         returnType |-> returnType,
         unchanged |-> unchanged,
         calls |-> IF unchanged THEN <<>> ELSE modifierCalls \o parameterCalls \o returnCalls]

\* visitFunctionLike(node, insideClass): what it computes and the calls it makes on
\* the update tracker
visitFunctionLike(node) ==
    RecordUpdates(node,
                  IF node.kind = "MethodDeclaration" /\ node.insideClass
                  THEN modifiersFromJSDoc(node)
                  ELSE getModifiers(node),
                  visitParameters(node),
                  ReturnTypeOf(node))

-----------------------------------------------------------------------------
(* The eslint-fix plugin: eslintFixPlugin.run                                *)

\* a LintResult of the linter as far as run reads it: its `output?: string`
LintResult(hasOutput, output) == [hasOutput |-> hasOutput, output |-> output]

\* what one call of cli.lintText does: the promise rejects, or it resolves with an
\* array of results
Rejects == [thrown |-> TRUE, results |-> <<>>]
Resolves(results) == [thrown |-> FALSE, results |-> results]

\* const [report] = await cli.lintText(...)
FirstResult(results) == IF results = <<>> THEN Undefined ELSE results[1]

\* !report.output: the output is absent or the empty string
NoOutput(report) == ~report.hasOutput \/ report.output = ""

\* !report || !report.output || report.output === newText
LoopBreaks(report, current) ==
    report = Undefined \/ NoOutput(report) \/ report.output = current

\* the catch block returning the text of the loop instead of the text run was given
CatchReturn_Partial(input, current) == current

\* catch (e) { ... return text; }
CatchReturn(input, current) == input

-----------------------------------------------------------------------------
(* The files the host hands to the Shape-Extraction transform *)

Headers ==
    {"",
     "import PropTypes from 'prop-types';",
     "import { Shape } from 'react-validators';",
     "import React from 'react';"}

StatementMenu ==
    {"const X = PropTypes.shape({});",
     "export const X = PropTypes.shape({});",
     "// export\nexport const X = PropTypes.shape({});",
     "const X = PropTypes.arrayOf(PropTypes.shape({}));",
     "export const Y = Types.arrayOf(Shape({}));",
     "export default PropTypes.shape({});",
     "type X = {};",
     "interface Y {}",
     "const X: T = PropTypes.shape({});",
     "const a = 1;  ",
     "const X = PropTypes.arrayOf();",
     "export default PropTypes.shape();"}

FileNames == {"X.js"}

Bodies == UNION {[1..n -> StatementMenu] : n \in 0..MaxStatements}

RECURSIVE JoinLines(_)
JoinLines(body) ==
    IF body = <<>> THEN "" ELSE "\n" \o Head(body) \o JoinLines(Tail(body))

FileText(header, body, finalNewline) ==
    header \o JoinLines(body) \o (IF finalNewline THEN "\n" ELSE "")

-----------------------------------------------------------------------------
(* The Shape-Extraction transform run by the host *)

InitShape ==
    /\ mode = "shape"
    /\ fileName \in FileNames
    /\ \E header \in Headers, body \in Bodies, finalNewline \in BOOLEAN :
           text = FileText(header, body, finalNewline)
    /\ original = text
    /\ statements = Parse(text)
    /\ pass = 1
    /\ pc = "start"
    /\ idx = 1
    /\ updates = <<>>
    /\ shouldAddPropTypesImport = FALSE
    /\ returned = "none"
    /\ result = ""
    /\ options = IdleOptions
    /\ jsDocType = Undefined
    /\ visited = Undefined
    /\ declaration = Undefined
    /\ visitedFn = Undefined
    /\ cli = <<>>
    /\ newText = ""
    /\ outcome = Undefined

\* run, up to the loop: no validation import, no work
RunStart ==
    /\ mode = "shape"
    /\ pc = "start"
    /\ IF ~hasPropTypesImport(statements)
       THEN /\ pc' = "done"
            /\ returned' = "undefined"
            /\ UNCHANGED shouldAddPropTypesImport
       ELSE /\ pc' = "loop"
            /\ shouldAddPropTypesImport' = InitialShouldAddPropTypesImport(statements)
            /\ UNCHANGED returned
    /\ UNCHANGED <<mode, lintVars, fileName, original, text, statements, pass, idx, updates, result,
                   jsDocVars>>

\* one iteration of the loop over sourceFile.statements
VisitStatement ==
    /\ mode = "shape"
    /\ pc = "loop"
    /\ idx <= Len(statements)
    /\ LET r == LoopBody(text, statements, statements[idx], shouldAddPropTypesImport,
                         fileName)
       IN  /\ updates' = updates \o r.edits
           /\ shouldAddPropTypesImport' = r.shouldAdd
           /\ IF r.thrown
              THEN pc' = "done" /\ returned' = "thrown" /\ idx' = idx
              ELSE pc' = "loop" /\ returned' = returned /\ idx' = idx + 1
    /\ UNCHANGED <<mode, lintVars, fileName, original, text, statements, pass, result, jsDocVars>>

\* after the loop: updateSourceText, the cleanup, return
RunFinish ==
    /\ mode = "shape"
    /\ pc = "loop"
    /\ idx > Len(statements)
    /\ LET patched == updateSourceText(text, updates)
       IN  IF patched.ok
           THEN returned' = "text" /\ result' = Cleanup(text, patched.text)
           ELSE returned' = "thrown" /\ result' = result
    /\ pc' = "done"
    /\ UNCHANGED <<mode, lintVars, fileName, original, text, statements, pass, idx, updates,
                   shouldAddPropTypesImport, jsDocVars>>

\* the host writes the returned text and runs the plugin on it once more
RunAgain ==
    /\ mode = "shape"
    /\ pc = "done"
    /\ returned = "text"
    /\ pass = 1
    /\ text' = result
    /\ statements' = Parse(result)
    /\ pass' = 2
    /\ pc' = "start"
    /\ idx' = 1
    /\ updates' = <<>>
    /\ shouldAddPropTypesImport' = FALSE
    /\ returned' = "none"
    /\ result' = ""
    /\ UNCHANGED <<mode, lintVars, fileName, original, jsDocVars>>

NextShape == RunStart \/ VisitStatement \/ RunFinish \/ RunAgain

SpecShape == InitShape /\ [][NextShape]_vars

\* the text of the file once the host has handled what run returned
FileAfter == IF returned = "text" THEN result ELSE text

-----------------------------------------------------------------------------
(* The documentary type expressions handed to visitJSDocType *)

\* options.typeMap as a caller can supply it
OptionTypeMaps ==
    {EmptyTypeMap,
     "Object" :> Rename("Record"),
     "Object" :> TypeOptions("Dict", "true"),
     "Array" :> TypeOptions("", "false"),
     "List" :> Rename("Array"),
     "List" :> TypeOptions("Promise", "false"),
     "Foo" :> Rename("string"),
     "Foo" :> TypeOptions("Bar", "undefined")}

AnyAliases == {"", "$TSFixMe"}

StringKeyword == Keyword("StringKeyword")
NumberKeyword == Keyword("NumberKeyword")
Bare(name) == TypeReference(<<name>>, Undefined)

LeafTypes ==
    {StringKeyword, NumberKeyword, Keyword("JSDocAllType"), Bare("String"), Bare("Foo"),
     TypeReference(<<"Array">>, NodeArray(<<Bare("Number")>>))}

TypeArgumentLists ==
    {Undefined} \cup
    {NodeArray(args) : args \in UNION {[1..n -> LeafTypes] : n \in 1..MaxTypeArguments}}

ReferenceNames == {"Object", "Array", "Promise", "promise", "Foo", "String", "List"}

References ==
    {TypeReference(<<name>>, args) : name \in ReferenceNames, args \in TypeArgumentLists}
    \cup {TypeReference(<<"ns", name>>, args) :
              name \in {"Array", "Object"},
              args \in {Undefined, NodeArray(<<StringKeyword, Bare("String")>>)}}

JSDocWrapperKinds ==
    {"JSDocOptionalType", "JSDocNonNullableType", "JSDocNullableType", "JSDocVariadicType"}

PropertyTagLists ==
    {<<PropertyLikeTag(<<"opts", "a">>, JSDocTypeExpression(JSDocWrapper("JSDocOptionalType", StringKeyword)), FALSE),
       PropertyLikeTag(<<"opts", "b">>, JSDocTypeExpression(NumberKeyword), TRUE)>>,
     <<PropertyLikeTag(<<"c">>, JSDocTypeExpression(Bare("String")), FALSE),
       PropertyLikeTag(<<"d">>, Undefined, FALSE)>>}

TypeLiterals ==
    {JSDocTypeLiteral(Undefined)}
    \cup {JSDocTypeLiteral(NodeArray(tags)) : tags \in PropertyTagLists}

FunctionTypes ==
    {JSDocFunctionType(<<>>, Undefined),
     JSDocFunctionType(<<Parameter("Identifier", "", FALSE, Bare("String"), FALSE),
                         Parameter("Identifier", "", FALSE,
                                   JSDocWrapper("JSDocVariadicType", Bare("Number")), FALSE)>>,
                       Bare("String")),
     JSDocFunctionType(<<Parameter("Identifier", "cb", FALSE, Undefined, FALSE)>>,
                       NumberKeyword)}

JSDocTypes ==
    References
    \cup LeafTypes
    \cup {ArrayType(t) : t \in LeafTypes}
    \cup {JSDocWrapper(kind, t) : kind \in JSDocWrapperKinds, t \in LeafTypes}
    \cup TypeLiterals
    \cup FunctionTypes

-----------------------------------------------------------------------------
(* The function-like declarations handed to visitFunctionLike *)

BooleanKeyword == Keyword("BooleanKeyword")
Optional(type) == JSDocWrapper("JSDocOptionalType", type)

ParameterLists ==
    {<<>>,
     <<Parameter("Identifier", "x", FALSE, Undefined, FALSE)>>,
     <<Parameter("Identifier", "x", FALSE, BooleanKeyword, FALSE)>>,
     <<Parameter("Identifier", "x", TRUE, Bare("Foo"), FALSE)>>,
     <<Parameter("Identifier", "x", FALSE, Undefined, TRUE)>>,
     <<Parameter("Identifier", "x", TRUE, Undefined, FALSE)>>,
     <<Parameter("ObjectBindingPattern", "", FALSE, Undefined, FALSE)>>,
     <<Parameter("Identifier", "opts", FALSE, Undefined, FALSE)>>,
     <<Parameter("Identifier", "x", FALSE, Undefined, FALSE),
       Parameter("Identifier", "opts", FALSE, BooleanKeyword, FALSE)>>,
     <<Parameter("ObjectBindingPattern", "", FALSE, Undefined, FALSE),
       Parameter("ObjectBindingPattern", "", FALSE, Undefined, FALSE)>>}

ParamTagMenu ==
    {PropertyLikeTag(<<"x">>, JSDocTypeExpression(StringKeyword), FALSE),
     PropertyLikeTag(<<"x">>, JSDocTypeExpression(Optional(NumberKeyword)), FALSE),
     PropertyLikeTag(<<"x">>, JSDocTypeExpression(Bare("String")), TRUE),
     PropertyLikeTag(<<"x">>, Undefined, TRUE),
     PropertyLikeTag(<<"opts">>, JSDocTypeExpression(Bare("Object")), TRUE),
     PropertyLikeTag(<<"opts", "name">>, JSDocTypeExpression(Bare("String")), FALSE),
     PropertyLikeTag(<<"opts", "name">>, JSDocTypeExpression(Optional(StringKeyword)), FALSE),
     PropertyLikeTag(<<"opts", "age">>, Undefined, TRUE),
     PropertyLikeTag(<<"opts", "name", "first">>, JSDocTypeExpression(Bare("Foo")), FALSE),
     PropertyLikeTag(<<"opts", "kind">>, JSDocTypeExpression(Bare("STRING")), FALSE),
     PropertyLikeTag(<<"args", "id">>, JSDocTypeExpression(NumberKeyword), FALSE)}
    \cup {PropertyLikeTag(<<"opts">>, JSDocTypeExpression(JSDocTypeLiteral(NodeArray(tags))), FALSE) :
              tags \in PropertyTagLists}

ParamTagLists == UNION {[1..n -> ParamTagMenu] : n \in 0..MaxParamTags}

ModifierLists ==
    {Undefined, NodeArray(<<"static">>), NodeArray(<<"private">>),
     NodeArray(<<"async", "public">>), NodeArray(<<"@decorator", "static">>)}

PrivacyTagSets ==
    {{}, {"private"}, {"public"}, {"protected", "public"}, {"private", "protected", "public"}}

\* functions that differ in their parameters and @param tags
DocumentedFunctions ==
    {FunctionLike("FunctionDeclaration", FALSE, Undefined, parameters, Undefined, paramTags,
                  Undefined, {}) :
         parameters \in ParameterLists, paramTags \in ParamTagLists}

\* functions that differ in their kind, modifiers, return type and tags
FunctionKinds ==
    {<<"MethodDeclaration", TRUE>>, <<"MethodDeclaration", FALSE>>,
     <<"FunctionDeclaration", FALSE>>, <<"ArrowFunction", FALSE>>}

DeclaredFunctions ==
    {FunctionLike(d.kind[1], d.kind[2], d.modifiers,
                  <<Parameter("Identifier", "x", FALSE, BooleanKeyword, FALSE)>>,
                  d.type, d.paramTags, d.returnTag, d.privacyTags) :
         d \in [kind : FunctionKinds,
                modifiers : ModifierLists,
                type : {Undefined, BooleanKeyword},
                paramTags : {<<>>, <<PropertyLikeTag(<<"x">>, JSDocTypeExpression(StringKeyword), FALSE)>>},
                returnTag : {Undefined, Bare("String")},
                privacyTags : PrivacyTagSets]}

FunctionLikes == DocumentedFunctions \cup DeclaredFunctions

-----------------------------------------------------------------------------
(* The Signature-Annotation transform run by the host *)

\* the variables of eslintFixPlugin.run while another transform runs
IdleLint ==
    /\ cli = <<>>
    /\ newText = ""
    /\ outcome = Undefined

IdleShape ==
    /\ fileName = ""
    /\ original = ""
    /\ text = ""
    /\ statements = <<>>
    /\ pass = 0
    /\ pc = "idle"
    /\ idx = 0
    /\ updates = <<>>
    /\ shouldAddPropTypesImport = FALSE
    /\ returned = "none"
    /\ result = ""

InitType ==
    /\ mode = "type"
    /\ IdleShape
    /\ IdleLint
    /\ options \in [annotateReturns : {FALSE}, anyAlias : AnyAliases, typeMap : OptionTypeMaps]
    /\ jsDocType \in JSDocTypes
    /\ visited = Undefined
    /\ declaration = Undefined
    /\ visitedFn = Undefined

VisitType ==
    /\ mode = "type"
    /\ visited = Undefined
    /\ visited' = visitJSDocType(jsDocType)
    /\ UNCHANGED <<mode, lintVars, shapeVars, options, jsDocType, declaration, visitedFn>>

NextType == VisitType

SpecType == InitType /\ [][NextType]_vars

InitFunction ==
    /\ mode = "fn"
    /\ IdleShape
    /\ IdleLint
    /\ options \in [annotateReturns : BOOLEAN, anyAlias : AnyAliases, typeMap : {EmptyTypeMap}]
    /\ jsDocType = Undefined
    /\ visited = Undefined
    /\ declaration \in FunctionLikes
    /\ visitedFn = Undefined

VisitFunction ==
    /\ mode = "fn"
    /\ visitedFn = Undefined
    /\ visitedFn' = visitFunctionLike(declaration)
    /\ UNCHANGED <<mode, lintVars, shapeVars, options, jsDocType, visited, declaration>>

NextFunction == VisitFunction

SpecFunction == InitFunction /\ [][NextFunction]_vars

-----------------------------------------------------------------------------
(* The texts and linters handed to eslintFixPlugin.run *)

Texts == {"", "var a", "let a", "const a"}

\* what cli.lintText can do with a text: reject, resolve with no result, with a
\* result without output, or with a result whose output is one of the texts
LintOutcomes ==
    {Rejects, Resolves(<<>>), Resolves(<<LintResult(FALSE, "")>>)}
    \cup {Resolves(<<LintResult(TRUE, output)>>) : output \in Texts}

\* run({ fileName, text }) at `let newText = text`, before the first lint call
InitLint ==
    /\ mode = "lint"
    /\ fileName \in FileNames
    /\ text \in Texts
    /\ cli \in [Texts -> LintOutcomes]
    /\ newText = text
    /\ outcome = Undefined
    /\ pc = "loop"
    /\ returned = "none"
    /\ result = ""
    /\ original = text
    /\ statements = <<>>
    /\ pass = 0
    /\ idx = 0
    /\ updates = <<>>
    /\ shouldAddPropTypesImport = FALSE
    /\ options = IdleOptions
    /\ jsDocType = Undefined
    /\ visited = Undefined
    /\ declaration = Undefined
    /\ visitedFn = Undefined

\* one iteration of  while (true): the lint call, then the break and `return newText`,
\* or the assignment to newText, or the catch block and `return text`
LintIteration ==
    /\ mode = "lint"
    /\ pc = "loop"
    /\ outcome' = cli[newText]
    /\ LET report == FirstResult(cli[newText].results)
       IN  IF cli[newText].thrown
           THEN /\ pc' = "done"
                /\ returned' = "text"
                /\ result' = CatchReturn(text, newText)
                /\ UNCHANGED newText
           ELSE IF LoopBreaks(report, newText)
           THEN /\ pc' = "done"
                /\ returned' = "text"
                /\ result' = newText
                /\ UNCHANGED newText
           ELSE /\ newText' = report.output
                /\ UNCHANGED <<pc, returned, result>>
    /\ UNCHANGED <<mode, cli, fileName, original, text, statements, pass, idx, updates,
                   shouldAddPropTypesImport, jsDocVars>>

NextLint == LintIteration

SpecLint == InitLint /\ [][NextLint]_vars

\* run under the scheduling of the event loop: every call of cli.lintText settles
\* and the continuation after the `await` is then run
SpecLintLive == SpecLint /\ WF_vars(LintIteration)

-----------------------------------------------------------------------------
(* Every transform *)

Init == InitShape \/ InitType \/ InitFunction \/ InitLint

Next ==
    RunStart \/ VisitStatement \/ RunFinish \/ RunAgain \/ VisitType \/ VisitFunction
    \/ LintIteration

Spec == Init /\ [][Next]_vars

-----------------------------------------------------------------------------
(* Properties of the Shape-Extraction transform *)

MatchesShapePattern(node) ==
    IsShapeVariable(node) \/ IsArrayOfShapesVariable(node) \/ IsDefaultExportedShape(node)

\* the statements the loop has finished with
Processed == 1..Min(idx - 1, Len(statements))

\* how many of the recorded edits are among those selected
CountUpdates(selected) == Len(selected)

\* a statement of the files C1 speaks of
C1_Statement(node) ==
    \/ node.kind = "ImportDeclaration" /\ TestValidationImport(node.moduleSpecifier)
    \/ MatchesShapePattern(node)

\* C1 (idempotence): for a file made of a validation import and shape, array-of-shapes
\* and default-exported shape statements (exported or not), the run on the text the
\* first run produced returns that text unchanged.
C1_Idempotent ==
    (/\ mode = "shape" /\ pass = 2 /\ pc = "done"
     /\ \A k \in 1..Len(Parse(original)) : C1_Statement(Parse(original)[k]))
    => (returned = "text" /\ result = text)

\* C2 (non-interference): when no statement of the input matches a shape pattern, the
\* text of the file after a run that returned equals the input text exactly.
C2_NonInterference ==
    (/\ mode = "shape" /\ pass = 1 /\ pc = "done" /\ returned # "thrown"
     /\ \A k \in 1..Len(statements) : ~MatchesShapePattern(statements[k]))
    => FileAfter = text

\* C3 (a): a parameter that has an explicit type comes out of visitParameters as it
\* went in, whatever @param tags there are.
C3a_TypedParametersKept ==
    (mode = "fn" /\ visitedFn # Undefined)
    => \A i \in 1..Len(declaration.parameters) :
           declaration.parameters[i].type # Undefined
           => visitedFn.parameters[i] = declaration.parameters[i]

\* C3 (b): the return type visitFunctionLike computes for a function with an explicit
\* return type is that type, whatever annotateReturns and the @returns tag are.
C3b_ReturnTypeKept ==
    (mode = "fn" /\ visitedFn # Undefined /\ declaration.type # Undefined)
    => visitedFn.returnType = declaration.type

\* C3 (c): the loop iteration of a variable statement with an explicit type records
\* no edit.
C3c_TypedVariableStep ==
    (/\ mode = "shape" /\ pc = "loop" /\ idx <= Len(statements)
     /\ statements[idx].kind = "VariableStatement"
     /\ statements[idx].hasType)
    => updates' = updates

\* C3 (existing-annotation preservation): (a), (b) and (c) hold throughout.
C3_AnnotationsPreserved ==
    [](C3a_TypedParametersKept /\ C3b_ReturnTypeKept) /\ [][C3c_TypedVariableStep]_vars

\* C3 witness: a function with a typed parameter documented by a @param tag, an
\* explicit return type and a @returns tag has been visited with annotateReturns on.
C3_Witness ==
    /\ mode = "fn" /\ visitedFn # Undefined
    /\ options.annotateReturns
    /\ declaration.type # Undefined /\ declaration.returnTag # Undefined
    /\ \E i \in 1..Len(declaration.parameters) :
           /\ declaration.parameters[i].type # Undefined
           /\ \E k \in 1..Len(declaration.paramTags) :
                  /\ declaration.paramTags[k].name = <<declaration.parameters[i].name>>
                  /\ declaration.paramTags[k].typeExpression # Undefined

IsAliasInsert(e, name) ==
    e.kind = "insert" /\ StartsWith(e.text, "\n\ntype " \o name \o " = ")

\* C4 (already-migrated alias): no recorded edit inserts a type alias whose name is
\* that of a type alias or an interface the input file declares at its top level.
C4_NoAliasForDeclaredType ==
    mode = "shape"
    => \A k \in 1..Len(updates), j \in 1..Len(typesAndInterfaces(statements)) :
           ~IsAliasInsert(updates[k], typesAndInterfaces(statements)[j].name)

IsImportInsert(e) ==
    e.kind = "insert" /\ e.index = 0 /\ e.text = PropTypesImportText \o "\n"

\* C5 (single import injection): at every point of a run, the import-insert edits
\* recorded at index 0 are exactly one if the file has no prop-types import and a
\* statement processed so far matched a shape pattern, and none otherwise; once one
\* is recorded the flag shouldAddPropTypesImport is false.
C5_SingleImportInsert ==
    (mode = "shape" /\ pc \in {"loop", "done"})
    => /\ CountUpdates(SelectSeq(updates, IsImportInsert)) =
              IF /\ InitialShouldAddPropTypesImport(statements)
                 /\ \E k \in Processed : MatchesShapePattern(statements[k])
              THEN 1 ELSE 0
       /\ CountUpdates(SelectSeq(updates, IsImportInsert)) >= 1 => ~shouldAddPropTypesImport

\* C5 witness: a run over a file without a prop-types import is over, two of its
\* statements matched a shape pattern, and one import insert is recorded.
C5_Witness ==
    /\ mode = "shape" /\ pass = 1 /\ pc = "done" /\ returned = "text"
    /\ InitialShouldAddPropTypesImport(statements)
    /\ Cardinality({k \in 1..Len(statements) : MatchesShapePattern(statements[k])}) >= 2
    /\ CountUpdates(SelectSeq(updates, IsImportInsert)) = 1

\* C6 (export splitting): for every processed, directly exported variable statement
\* that matches the shape or array-of-shapes pattern, exactly one delete edit lies in
\* the statement, it covers exactly the statement's export keyword and the character
\* after it, and exactly one insert of `export { Name };` is recorded at its end.
C6_ExportSplit ==
    mode = "shape"
    => \A k \in Processed :
           LET node == statements[k]
           IN  (/\ node.kind = "VariableStatement" /\ node.exportModifier
                /\ (IsShapeVariable(node) \/ IsArrayOfShapesVariable(node)))
               => /\ CountUpdates(SelectSeq(updates, LAMBDA e : /\ e.kind = "delete"
                                             /\ e.index >= node.pos
                                             /\ e.index < node.end)) = 1
                  /\ CountUpdates(SelectSeq(updates, LAMBDA e : /\ e.kind = "delete"
                                             /\ e.index = node.start
                                             /\ e.length = Len("export") + 1)) = 1
                  /\ CountUpdates(SelectSeq(updates, LAMBDA e : /\ e.kind = "insert"
                                             /\ e.index = node.end
                                             /\ e.text = "\nexport { " \o node.name \o " };")) = 1

-----------------------------------------------------------------------------
(* Properties of the translation of documentary type references *)

\* a documentary reference with an identifier name has been translated
ReferenceVisited ==
    /\ mode = "type" /\ visited # Undefined
    /\ jsDocType.kind = "TypeReference"
    /\ Len(jsDocType.typeName) = 1

SuppliedArguments ==
    IF jsDocType.typeArguments = Undefined THEN <<>> ELSE jsDocType.typeArguments.elements

\* Object<K, V> with exactly two arguments, the first the string or number keyword
IsObjectMap ==
    /\ jsDocType.typeName = <<"Object">>
    /\ Len(SuppliedArguments) = 2
    /\ SuppliedArguments[1] \in {StringKeyword, NumberKeyword}

\* an index-signature type keyed by key with the value type value
IsIndexSignatureType(node, key, value) ==
    /\ node.kind = "TypeLiteral"
    /\ Len(node.members) = 1
    /\ node.members[1].kind = "IndexSignature"
    /\ Len(node.members[1].parameters) = 1
    /\ node.members[1].parameters[1].type.kind = "TypeReference"
    /\ node.members[1].parameters[1].type.typeName = <<key>>
    /\ node.members[1].type = value

\* C7 (index-signature override): under every alias table, Object<K, V> with two
\* arguments and K the string (number) keyword is translated to an index signature
\* keyed by string (number) with value type V; no other reference named Object is
\* translated to an index signature.
C7_IndexSignatureOverride ==
    (ReferenceVisited /\ jsDocType.typeName = <<"Object">>)
    => IF IsObjectMap
       THEN IsIndexSignatureType(visited,
                IF SuppliedArguments[1] = NumberKeyword THEN "number" ELSE "string",
                SuppliedArguments[2])
       ELSE visited.kind # "TypeLiteral"

\* C7 witness: Object<string, V> has been translated under an alias table that maps
\* Object to something else.
C7_Witness ==
    /\ ReferenceVisited /\ IsObjectMap
    /\ SuppliedArguments[1] = StringKeyword
    /\ "Object" \in DOMAIN options.typeMap
    /\ visited.kind = "TypeLiteral"

\* the name of the reference after the alias-table rename
RenamedName ==
    LET name == jsDocType.typeName[1]
        table == options.typeMap @@ defaultTypeMap
    IN  IF name \notin DOMAIN table THEN name
        ELSE IF IsRename(table[name]) THEN table[name].string
        ELSE IF table[name].tsName # "" THEN table[name].tsName
        ELSE name

\* the alias-table entry of the reference is a record with acceptsTypeParameters: false
EntryRefusesArguments ==
    LET name == jsDocType.typeName[1]
        table == options.typeMap @@ defaultTypeMap
    IN  /\ name \in DOMAIN table
        /\ ~IsRename(table[name])
        /\ table[name].acceptsTypeParameters = "false"

CarriesNoTypeArguments(node) ==
    node.kind # "TypeReference" \/ node.typeArguments = Undefined

KeepsSuppliedArguments ==
    /\ visited.kind = "TypeReference"
    /\ visited.typeName = <<RenamedName>>
    /\ visited.typeArguments # Undefined
    /\ Len(visited.typeArguments.elements) = Len(SuppliedArguments)
    /\ \A i \in 1..Len(SuppliedArguments) :
           visited.typeArguments.elements[i] = NormalizedArg(SuppliedArguments[i])

\* C8 as the specification states it: a reference whose renamed name is a primitive
\* keyword, or whose alias-table entry refuses type parameters, is translated to a
\* type without type arguments; any other reference with supplied arguments keeps
\* them, in number and order, under the renamed name.
C8_ArgumentsDropped ==
    (ReferenceVisited /\ ~IsObjectMap)
    => IF RenamedName \in DOMAIN PRIMITIVE_KEYWORDS \/ EntryRefusesArguments
       THEN CarriesNoTypeArguments(visited)
       ELSE SuppliedArguments # <<>> => KeepsSuppliedArguments

\* C8 (type-argument dropping): as above, except that a reference with no supplied
\* arguments whose renamed name is Array or Promise carries the one default argument
\* even when its alias-table entry refuses type parameters.
C8_SuppliedArgumentsDropped ==
    (ReferenceVisited /\ ~IsObjectMap)
    => IF RenamedName \in DOMAIN PRIMITIVE_KEYWORDS
       THEN CarriesNoTypeArguments(visited)
       ELSE IF EntryRefusesArguments
       THEN IF SuppliedArguments = <<>> /\ RenamedName \in {"Array", "Promise"}
            THEN visited = TypeReference(<<RenamedName>>, NodeArray(<<anyType>>))
            ELSE CarriesNoTypeArguments(visited)
       ELSE SuppliedArguments # <<>> => KeepsSuppliedArguments

\* C8 witness: a reference with supplied arguments whose entry refuses type
\* parameters has been translated to a reference without arguments.
C8_Witness ==
    /\ ReferenceVisited /\ ~IsObjectMap
    /\ EntryRefusesArguments
    /\ SuppliedArguments # <<>>
    /\ visited = TypeReference(<<RenamedName>>, Undefined)

\* C9 (Array and Promise never without an argument): a translated reference whose
\* name is Array or Promise has at least one type argument, and exactly the one
\* configured unknown type when the documentary reference supplied none.
C9_ListNeverBare ==
    (/\ ReferenceVisited
     /\ visited.kind = "TypeReference"
     /\ visited.typeName \in {<<"Array">>, <<"Promise">>})
    => /\ visited.typeArguments # Undefined
       /\ Len(visited.typeArguments.elements) >= 1
       /\ SuppliedArguments = <<>> => visited.typeArguments.elements = <<anyType>>

-----------------------------------------------------------------------------
(* Properties of the optionality of synthesized bindings *)

\* the tag is bracketed or its type is optional-marked
MarkedOptional(tag) ==
    \/ tag.isBracketed
    \/ (tag.typeExpression # Undefined /\ tag.typeExpression.type.kind = "JSDocOptionalType")

IsPrefixOf(prefix, name) ==
    Len(name) >= Len(prefix) /\ SubSeq(name, 1, Len(prefix)) = prefix

\* the tags one level under the path prefix
ChildTags(prefix, tags) ==
    SelectSeq(tags, LAMBDA t : Len(t.name) = Len(prefix) + 1 /\ IsPrefixOf(prefix, t.name))

\* every member of the type literal built for prefix, at every depth, is optional
\* exactly when the tag it was built from is marked optional
RECURSIVE NestedMembersAsTagged(_, _, _)
NestedMembersAsTagged(prefix, tags, type) ==
    LET children == ChildTags(prefix, tags)
    IN  /\ type.kind = "TypeLiteral"
        /\ Len(type.members) = Len(children)
        /\ \A j \in 1..Len(children) :
               /\ type.members[j].questionToken = MarkedOptional(children[j])
               /\ ChildTags(children[j].name, tags) # <<>>
                  => NestedMembersAsTagged(children[j].name, tags, type.members[j].type)

\* the first @param tag that names the parameter and has a type
DirectTagOf(param) ==
    Find(SelectSeq(declaration.paramTags,
         LAMBDA t : t.name = <<param.name>> /\ t.typeExpression # Undefined))

\* the first @param tag with a dotted name
RootTag == Find(SelectSeq(declaration.paramTags, LAMBDA t : Len(t.name) > 1))

\* C10 (a): an untyped identifier parameter without question token and initializer
\* that has a direct tag comes out with a question token iff the tag is marked.
C10a_ParameterOptional ==
    \A i \in 1..Len(declaration.parameters) :
        LET param == declaration.parameters[i]
        IN  (/\ param.binding = "Identifier" /\ param.type = Undefined
             /\ ~param.initializer /\ ~param.questionToken
             /\ DirectTagOf(param) # Undefined)
            => visitedFn.parameters[i].questionToken = MarkedOptional(DirectTagOf(param))

\* C10 (b): the members buildNestedType builds for a destructured parameter are
\* optional iff their tags are marked.
C10b_NestedMemberOptional ==
    \A i \in 1..Len(declaration.parameters) :
        LET param == declaration.parameters[i]
        IN  (/\ param.binding = "ObjectBindingPattern" /\ param.type = Undefined
             /\ declaration.paramTags # <<>>
             /\ RootTag # Undefined)
            => NestedMembersAsTagged(<<RootTag.name[1]>>, declaration.paramTags,
                                     visitedFn.parameters[i].type)

\* C10 (c): the members visitJSDocPropertyLikeTag builds for a parameter documented
\* with an object-literal type are optional iff their property tags are marked.
C10c_PropertyOptional ==
    \A i \in 1..Len(declaration.parameters) :
        LET param == declaration.parameters[i]
            tag == DirectTagOf(param)
            literal == tag.typeExpression.type
        IN  (/\ param.binding = "Identifier" /\ param.type = Undefined
             /\ tag # Undefined
             /\ literal.kind = "JSDocTypeLiteral"
             /\ literal.jsDocPropertyTags # Undefined)
            => /\ visitedFn.parameters[i].type.kind = "TypeLiteral"
               /\ \A j \in 1..Len(literal.jsDocPropertyTags.elements) :
                      visitedFn.parameters[i].type.members[j].questionToken
                          = MarkedOptional(literal.jsDocPropertyTags.elements[j])

\* C10 (optionality propagation): at each of the three binding sites the binding is
\* optional iff its tag is bracketed or the tag's type is optional-marked.
C10_OptionalityPropagates ==
    (mode = "fn" /\ visitedFn # Undefined)
    => C10a_ParameterOptional /\ C10b_NestedMemberOptional /\ C10c_PropertyOptional

-----------------------------------------------------------------------------
(* Properties of the types synthesized for destructured parameters *)

\* the @param tags with a dotted name, in declaration order
DottedTags == SelectSeq(declaration.paramTags, LAMBDA t : Len(t.name) > 1)

\* the root names the dotted tags document, in order of first appearance
RECURSIVE DistinctRoots(_)
DistinctRoots(tags) ==
    IF tags = <<>> THEN <<>>
    ELSE <<Head(tags).name[1]>>
         \o DistinctRoots(SelectSeq(Tail(tags), LAMBDA t : t.name[1] # Head(tags).name[1]))

\* the places of the untyped destructured parameters among the parameters
RECURSIVE DestructuredFrom(_)
DestructuredFrom(i) ==
    IF i > Len(declaration.parameters) THEN <<>>
    ELSE (IF /\ declaration.parameters[i].binding = "ObjectBindingPattern"
             /\ declaration.parameters[i].type = Undefined
          THEN <<i>> ELSE <<>>) \o DestructuredFrom(i + 1)

\* the type is an object type with exactly the members documented under root
HasMembersOf(type, root) ==
    LET children == ChildTags(<<root>>, declaration.paramTags)
    IN  /\ type.kind = "TypeLiteral"
        /\ Len(type.members) = Len(children)
        /\ \A j \in 1..Len(children) : type.members[j].name = children[j].name[2]

\* C11 (destructured-parameter typing): in a function with @param tags, an untyped
\* destructured parameter gets the object keyword when no tag is dotted; when the
\* dotted tags document as many root names as there are untyped destructured
\* parameters, the k-th such parameter gets an object type with exactly the members
\* documented under the k-th root name.
C11_DestructuredTyping ==
    (mode = "fn" /\ visitedFn # Undefined /\ declaration.paramTags # <<>>)
    => LET roots == DistinctRoots(DottedTags)
           places == DestructuredFrom(1)
       IN  \A k \in 1..Len(places) :
               IF roots = <<>>
               THEN visitedFn.parameters[places[k]].type = Keyword("ObjectKeyword")
               ELSE Len(places) = Len(roots)
                    => HasMembersOf(visitedFn.parameters[places[k]].type, roots[k])

-----------------------------------------------------------------------------
(* Properties of buildNestedType *)

\* some tag is declared under the path name
HasDescendants(name, tags) ==
    \E k \in 1..Len(tags) : Len(tags[k].name) > Len(name) /\ IsPrefixOf(name, tags[k].name)

\* the type visitJSDocType gives the type expression of a tag
ParsedType(tag) == visitJSDocType(tag.typeExpression.type)

\* a reference to a name that is, or lower-cases to, the name of a primitive keyword
\* stands for that keyword
KeywordFor(type) ==
    IF type.kind = "TypeReference" /\ Len(type.typeName) = 1
    THEN IF type.typeName[1] \in DOMAIN PRIMITIVE_KEYWORDS
         THEN Keyword(PRIMITIVE_KEYWORDS[type.typeName[1]])
         ELSE IF toLowerCase(type.typeName[1]) \in DOMAIN PRIMITIVE_KEYWORDS
         THEN Keyword(PRIMITIVE_KEYWORDS[toLowerCase(type.typeName[1])])
         ELSE type
    ELSE type

\* type is the object type of the path prefix: one member per tag prefix.p in tag
\* order; a member with descendants is the object type of its path, a member without
\* takes its tag's parsed type (normalize: with primitive names turned into keywords)
\* or, with no declared type, the unknown alias
RECURSIVE IsNestedTypeOf(_, _, _, _)
IsNestedTypeOf(type, prefix, tags, normalize) ==
    LET children == ChildTags(prefix, tags)
    IN  /\ type.kind = "TypeLiteral"
        /\ Len(type.members) = Len(children)
        /\ \A j \in 1..Len(children) :
               /\ type.members[j].kind = "PropertySignature"
               /\ type.members[j].name = children[j].name[Len(prefix) + 1]
               /\ IF HasDescendants(children[j].name, tags)
                  THEN IsNestedTypeOf(type.members[j].type, children[j].name, tags, normalize)
                  ELSE IF children[j].typeExpression = Undefined
                  THEN type.members[j].type = anyType
                  ELSE type.members[j].type =
                           IF normalize THEN KeywordFor(ParsedType(children[j]))
                           ELSE ParsedType(children[j])

\* visitParameters has called buildNestedType for the destructured parameter i
BuiltNestedTypeFor(i) ==
    /\ declaration.parameters[i].binding = "ObjectBindingPattern"
    /\ declaration.parameters[i].type = Undefined
    /\ DottedTags # <<>>

\* C12 as the specification states it: buildNestedType(root, tags) is the object type
\* with one member per tag root.p in tag order, nested where the member has
\* descendants, else the tag's parsed type, else the unknown alias.
C12_NestedObject ==
    (mode = "fn" /\ visitedFn # Undefined)
    => \A i \in 1..Len(declaration.parameters) :
           BuiltNestedTypeFor(i)
           => IsNestedTypeOf(visitedFn.parameters[i].type, <<DottedTags[1].name[1]>>,
                             declaration.paramTags, FALSE)

\* C12 (nested object synthesis): as above, and where the parsed type of a tag without
\* descendants is a reference to a name that is, or lower-cases to, a primitive
\* keyword name, the member takes that keyword.
C12_NestedObjectNormalized ==
    (mode = "fn" /\ visitedFn # Undefined)
    => \A i \in 1..Len(declaration.parameters) :
           BuiltNestedTypeFor(i)
           => IsNestedTypeOf(visitedFn.parameters[i].type, <<DottedTags[1].name[1]>>,
                             declaration.paramTags, TRUE)

\* C12 witness: buildNestedType has built a member that is itself an object type with
\* a member, from a tag root.p and a tag root.p.q.
C12_Witness ==
    /\ mode = "fn" /\ visitedFn # Undefined
    /\ declaration.parameters # <<>>
    /\ BuiltNestedTypeFor(1)
    /\ visitedFn.parameters[1].type.kind = "TypeLiteral"
    /\ \E j \in 1..Len(visitedFn.parameters[1].type.members) :
           /\ visitedFn.parameters[1].type.members[j].type.kind = "TypeLiteral"
           /\ visitedFn.parameters[1].type.members[j].type.members # <<>>

-----------------------------------------------------------------------------
(* Properties of the modifiers synthesized for class methods *)

AccessibilityKeywords == {"private", "protected", "public"}

\* the elements of a modifiers array as a set
ElementsOf(modifiers) ==
    IF modifiers = Undefined THEN {}
    ELSE {modifiers.elements[k] : k \in 1..Len(modifiers.elements)}

\* the modifier keywords the method has: its modifiers without the decorators
KeywordsOf(modifiers) == {m \in ElementsOf(modifiers) : ~StartsWith(m, "@")}

\* the accessibility the privacy tags ask for: private, else protected, else public
TaggedAccessibility(tags) ==
    IF "private" \in tags THEN "private"
    ELSE IF "protected" \in tags THEN "protected"
    ELSE "public"

ClassMethodVisited ==
    /\ mode = "fn" /\ visitedFn # Undefined
    /\ declaration.kind = "MethodDeclaration" /\ declaration.insideClass

\* C13 (accessibility synthesis never overrides): a class method that has an
\* accessibility modifier, or has no privacy tag, keeps its modifiers; any other gets
\* the modifier keywords it had and exactly one accessibility keyword: private if it
\* has a private tag, else protected, else public.
C13_AccessibilityNeverOverridden ==
    ClassMethodVisited
    => IF \/ KeywordsOf(declaration.modifiers) \cap AccessibilityKeywords # {}
          \/ declaration.privacyTags = {}
       THEN visitedFn.modifiers = declaration.modifiers
       ELSE /\ visitedFn.modifiers # Undefined
            /\ ElementsOf(visitedFn.modifiers) =
                   KeywordsOf(declaration.modifiers)
                   \cup {TaggedAccessibility(declaration.privacyTags)}
            /\ Len(visitedFn.modifiers.elements) = Cardinality(ElementsOf(visitedFn.modifiers))
            /\ Cardinality(ElementsOf(visitedFn.modifiers) \cap AccessibilityKeywords) = 1

\* C13 witness: a static class method with a @protected and a @public tag has been
\* visited and came out protected.
C13_Witness ==
    /\ ClassMethodVisited
    /\ declaration.modifiers = NodeArray(<<"static">>)
    /\ declaration.privacyTags = {"protected", "public"}
    /\ "protected" \in ElementsOf(visitedFn.modifiers)

-----------------------------------------------------------------------------
(* Properties of the way run ends *)

\* C14 (no exception escapes run): a run over a file with a prop-types or
\* react-validators import does not throw while it visits the statements; it ends
\* with a text, or with the fatal error of the patch engine after the loop.
C14_NoExceptionEscapes ==
    (mode = "shape" /\ pc = "done" /\ hasPropTypesImport(statements))
    => (returned = "text" \/ (returned = "thrown" /\ idx > Len(statements)))

-----------------------------------------------------------------------------
(* Properties of the calls visitFunctionLike makes on the update tracker *)

\* the calls of visitFunctionLike on the update tracker that are named call
CallsOf(call) == SelectSeq(visitedFn.calls, LAMBDA c : c.call = call)

\* C15 (return-annotation edits): visitFunctionLike calls updates.addReturnAnnotation
\* only when annotateReturns is on, the function has no explicit return type and its
\* @returns tag supplies a type.
C15_ReturnAnnotationOnlySynthesized ==
    (mode = "fn" /\ visitedFn # Undefined /\ CallsOf("addReturnAnnotation") # <<>>)
    => /\ options.annotateReturns
       /\ declaration.type = Undefined
       /\ declaration.returnTag # Undefined

-----------------------------------------------------------------------------
(* Properties of the recursion of visitJSDocType *)

\* the capitalised primitive names the default alias table collapses to keywords
BoxedPrimitiveNames == {"String", "Number"}

RECURSIVE HasUntranslatedReference(_)
\* a reference named String or Number occurs in the type, at any depth
HasUntranslatedReference(type) ==
    CASE type.kind = "TypeReference" ->
             \/ ts_isIdentifier(type.typeName) /\ type.typeName[1] \in BoxedPrimitiveNames
             \/ /\ type.typeArguments # Undefined
                /\ \E i \in 1..Len(type.typeArguments.elements) :
                       HasUntranslatedReference(type.typeArguments.elements[i])
      [] type.kind = "ArrayType" -> HasUntranslatedReference(type.elementType)
      [] type.kind = "UnionType" ->
             \E i \in 1..Len(type.types) : HasUntranslatedReference(type.types[i])
      [] type.kind \in {"FunctionType", "IndexSignature"} ->
             \/ HasUntranslatedReference(type.type)
             \/ \E i \in 1..Len(type.parameters) :
                    /\ type.parameters[i].type # Undefined
                    /\ HasUntranslatedReference(type.parameters[i].type)
      [] type.kind = "TypeLiteral" ->
             \E i \in 1..Len(type.members) : HasUntranslatedReference(type.members[i])
      [] type.kind = "PropertySignature" -> HasUntranslatedReference(type.type)
      [] OTHER -> FALSE

\* C16 (recursion at every nesting position): with the default entries for String and
\* Number in force, the type visitJSDocType returns holds no reference named String or
\* Number, at any depth.
C16_NoUntranslatedReference ==
    (mode = "type" /\ visited # Undefined /\ DOMAIN options.typeMap \cap BoxedPrimitiveNames = {})
    => ~HasUntranslatedReference(visited)

-----------------------------------------------------------------------------
(* Properties of the ranges of the recorded edits *)

\* the edit removes text: a delete or a replace
RemovesText(e) == e.kind \in {"delete", "replace"}

\* the range of the edit lies inside the full range of the statement
InsideStatement(e, node) == e.index >= node.pos /\ e.index + e.length <= node.end

\* C17 (edits stay inside their statement): every delete or replace edit an iteration
\* of the loop of run records for the statement it visits has index >= statement.pos
\* and index + length <= statement.end.
C17_EditsInsideStatement ==
    [][(mode = "shape" /\ pc = "loop" /\ idx <= Len(statements))
       => \A k \in (Len(updates) + 1)..Len(updates') :
              RemovesText(updates'[k]) => InsideStatement(updates'[k], statements[idx])]_vars

-----------------------------------------------------------------------------
(* Properties of the leaves of the nested synthesis *)

RECURSIVE MemberNames(_)
\* the names of the members of an object type, at every depth
MemberNames(type) ==
    IF type.kind # "TypeLiteral" THEN {}
    ELSE UNION {{type.members[j].name} \cup MemberNames(type.members[j].type) :
                    j \in 1..Len(type.members)}

\* C18 (no documented leaf dropped): the type buildNestedType(root, tags) returns for a
\* destructured parameter has, at some depth, a member for every tag whose name starts
\* with `root.`.
C18_NoLeafDropped ==
    (mode = "fn" /\ visitedFn # Undefined)
    => \A i \in 1..Len(declaration.parameters) :
           BuiltNestedTypeFor(i)
           => \A k \in 1..Len(DottedTags) :
                  DottedTags[k].name[1] = DottedTags[1].name[1]
                  => DottedTags[k].name[Len(DottedTags[k].name)]
                         \in MemberNames(visitedFn.parameters[i].type)

-----------------------------------------------------------------------------
(* Properties of a signature that comes out unaltered *)

\* modifiersFromJSDoc / getModifiers, visitParameters and the return type computation
\* gave back the modifiers, every parameter and the return type of the declaration
SignatureUnaltered ==
    /\ visitedFn.modifiers = declaration.modifiers
    /\ visitedFn.parameters = declaration.parameters
    /\ visitedFn.returnType = declaration.type

\* C19 (no edit for an unchanged signature): when no modifier, parameter or return
\* type comes out altered, visitFunctionLike makes no call on the update tracker.
C19_NoEditWhenUnaltered ==
    (mode = "fn" /\ visitedFn # Undefined /\ SignatureUnaltered) => visitedFn.calls = <<>>

-----------------------------------------------------------------------------
(* Properties of what eslintFixPlugin.run returns *)

\* run of eslint-fix has returned
LintReturned == mode = "lint" /\ pc = "done"

\* C20 (eslint-fix result on success and on error): run always returns a text and never
\* rethrows. When no lint call threw, the last lint call on the returned text gave no
\* report, or a report with no output (absent or empty), or a report whose output is
\* the returned text. When a lint call threw, at whichever iteration, the returned text
\* is the text run was given.
C20_ResultOnSuccessAndError ==
    LintReturned
    => /\ returned = "text"
       /\ outcome # Undefined
       /\ ~outcome.thrown
          => /\ outcome = cli[result]
             /\ \/ FirstResult(outcome.results) = Undefined
                \/ NoOutput(FirstResult(outcome.results))
                \/ FirstResult(outcome.results).output = result
       /\ outcome.thrown => result = text

\* C20 witness: a lint call threw after an earlier one had replaced the text of the
\* loop by a fixed one, and run returned the text it was given.
C20_Witness ==
    /\ LintReturned
    /\ outcome.thrown
    /\ newText # text
    /\ result = text

-----------------------------------------------------------------------------
(* Properties of the termination of eslintFixPlugin.run *)

\* C21 (eslint-fix termination): whatever cli.lintText does with each text, the loop of
\* run makes finitely many lint calls and run eventually returns.
C21_RunEventuallyReturns == (mode = "lint") ~> LintReturned

====
